---------------------------- MODULE Spec2Model ----------------------------
(***************************************************************************)
(* Model of hidden.go: LSB steganography in the Pix buffer of an RGBA      *)
(* image.  encode() frames a message (4-byte big-endian length, 4-byte     *)
(* big-endian Adler-32, message bytes) and writes the frame MSB-first into *)
(* the least-significant bit of every byte that is not the 4th of a pixel. *)
(* decode() collects those bits again, reads the header and verifies it.   *)
(*                                                                         *)
(* Bytes are integers 0..255.  A uint32 is the pair <<hi, lo>> of its two  *)
(* 16-bit halves, so that every 32-bit value of the header is represented  *)
(* exactly.  Indices into Pix are 0-based as in the source; the sequence   *)
(* element at 0-based index i is pix[i+1].                                 *)
(***************************************************************************)
EXTENDS Integers, Sequences, FiniteSets, TLC

VARIABLES
    srcPix,     \* Pix of the carrier image handed to encode (file fin)
    fmsg,       \* content of the message file handed to encode, <<>> before
    encStatus,  \* "none" | "ok" | "tooLarge" : outcome of the encode run
    destPix,    \* Pix written by encode (encoded.bmp), <<>> when none
    img,        \* Pix of the image file handed to decode
    flip,       \* <<>> or <<i, bit>>: the one bit of img edited by a third party
    decStatus,  \* "none" | "ok" | "noHidden" : outcome of the decode run
    out,        \* content of the file written by decode, <<>> when none
    br,         \* a bitReader: [ptr, data]
    brRet,      \* what the last br.next() returned: [bit, err]
    brCalls     \* number of br.next() calls made so far

vars == <<srcPix, fmsg, encStatus, destPix, img, flip, decStatus, out,
          br, brRet, brCalls>>

-----------------------------------------------------------------------------
(* Bounds of the model *)

MaxLen == 2          \* longest message, in bytes
MaxPixels == 27      \* largest carrier, in pixels (4 Pix bytes each)
MaxExtraCalls == 2   \* next() calls tried after the reader is exhausted

PayloadBytes == {0, 200}
PixelCounts == {2, 12, 22, 24, MaxPixels}
FlipBits == {0, 7}
\* carrier contents: Pix[i] = (base + step*i) % 256
Fills == {<<0, 0>>, <<255, 0>>, <<0, 37>>}

RECURSIVE SeqsUpTo(_, _)
SeqsUpTo(S, n) ==
    IF n = 0 THEN {<<>>}
    ELSE LET shorter == SeqsUpTo(S, n - 1)
         IN  shorter \cup {Append(s, x) : s \in shorter, x \in S}

Payloads == SeqsUpTo(PayloadBytes, MaxLen)

Carrier(n, fill) == [k \in 1..(4 * n) |-> (fill[1] + fill[2] * (k - 1)) % 256]

Carriers == {Carrier(n, f) : n \in PixelCounts, f \in Fills}

-----------------------------------------------------------------------------
(* Byte and word helpers *)

Pow2(n) == 2 ^ n

RECURSIVE And8(_, _)
And8(a, b) ==
    IF a = 0 \/ b = 0 THEN 0
    ELSE (a % 2) * (b % 2) + 2 * And8(a \div 2, b \div 2)

RECURSIVE Or8(_, _)
Or8(a, b) ==
    IF a = 0 /\ b = 0 THEN 0
    ELSE (IF a % 2 = 1 \/ b % 2 = 1 THEN 1 ELSE 0) + 2 * Or8(a \div 2, b \div 2)

\* uint32(n) for a length n, as <<hi, lo>>
Uint32(n) == <<(n \div 65536) % 65536, n % 65536>>

\* binary.Write(&buf, binary.BigEndian, v) for a uint32 v: its four bytes
PutUint32(v) == <<v[1] \div 256, v[1] % 256, v[2] \div 256, v[2] % 256>>

\* binary.Read(&buf, binary.BigEndian, &v) for a uint32 v that holds 0:
\* with four bytes left they become v; with fewer, io.ReadFull takes what
\* is left, reports an error (ignored by decode) and v keeps its zero.
BinaryRead(buf) ==
    IF Len(buf) >= 4
    THEN [val  |-> <<buf[1] * 256 + buf[2], buf[3] * 256 + buf[4]>>,
          rest |-> SubSeq(buf, 5, Len(buf))]
    ELSE [val |-> <<0, 0>>, rest |-> <<>>]

\* adler32.Checksum(m): a = 1 + sum of bytes, b = sum of the a's, mod 65521,
\* as the uint32 b<<16 | a
RECURSIVE AdlerLoop(_, _, _, _)
AdlerLoop(m, k, a, b) ==
    IF k > Len(m) THEN <<b, a>>
    ELSE LET a1 == (a + m[k]) % 65521
         IN  AdlerLoop(m, k + 1, a1, (b + a1) % 65521)

Adler32(m) == AdlerLoop(m, 1, 1, 0)

-----------------------------------------------------------------------------
(* bitReader *)

newBitReader(msg) ==
    [ptr  |-> 0,
     data |-> PutUint32(Uint32(Len(msg))) \o PutUint32(Adler32(msg)) \o msg]

\* next() taking the bits of a byte least-significant first
next_LsbFirst(r) ==
    LET i == r.ptr \div 8
    IN  IF i >= Len(r.data)
        THEN [bit |-> 0, err |-> "EOF", r |-> r]
        ELSE LET bit == r.ptr % 8
                 b   == r.data[i + 1]
             IN  [bit |-> And8(b, Pow2(bit)) \div Pow2(bit),
                  err |-> "nil",
                  r   |-> [r EXCEPT !.ptr = r.ptr + 1]]

\* (br *bitReader) next(): the returned (bit, err) and the reader afterwards
next(r) ==
    LET i == r.ptr \div 8
    IN  IF i >= Len(r.data)
        THEN [bit |-> 0, err |-> "EOF", r |-> r]
        ELSE LET bit == r.ptr % 8
                 b   == r.data[i + 1]
             IN  [bit |-> And8(b, 128 \div Pow2(bit)) \div Pow2(7 - bit),
                  err |-> "nil",
                  r   |-> [r EXCEPT !.ptr = r.ptr + 1]]

-----------------------------------------------------------------------------
(* encode *)

\* the capacity test of encode: len(r.data)+ln/4 > ln
TooLarge(r, ln) == Len(r.data) + ln \div 4 > ln

\* the test taking the 1st byte of a pixel for the one to copy through
EncodeSkips_First(i) == i % 4 = 0

\* encode's test for the 4th byte of a pixel, copied through
EncodeSkips(i) == (i + 1) % 4 = 0

\* the bit added without clearing the least-significant bit first
SetLsb_NoClear(b, bit) == (b + bit) % 256

\* if b%2 != 0 { b-- }; destImg.Pix[i] = b + bit
SetLsb(b, bit) == ((IF b % 2 # 0 THEN b - 1 ELSE b) + bit) % 256

\* one iteration of the loop over srcImg.Pix, at index i: st holds
\* destImg.Pix so far, the reader, what its last next() returned and the
\* number of next() calls made
EncodeStep(pix, i, st) ==
    LET b == pix[i + 1]
    IN  IF EncodeSkips(i)
        THEN [st EXCEPT !.pix = Append(@, b)]
        ELSE LET n == next(st.r)
             IN  [pix   |-> Append(st.pix, IF n.err # "nil" THEN b
                                                           ELSE SetLsb(b, n.bit)),
                  r     |-> n.r,
                  ret   |-> [bit |-> n.bit, err |-> n.err],
                  calls |-> st.calls + 1]

\* the iterations lo .. hi-1 of the loop, in index order.  The range is
\* halved, and the first half evaluated before the second is entered (that
\* is all the test on it does), only to keep TLC's evaluation shallow.
RECURSIVE EncodeLoop(_, _, _, _)
EncodeLoop(pix, lo, hi, st) ==
    IF lo >= hi THEN st
    ELSE IF hi = lo + 1 THEN EncodeStep(pix, lo, st)
    ELSE LET mid   == (lo + hi) \div 2
             first == EncodeLoop(pix, lo, mid, st)
         IN  IF first.calls >= 0 THEN EncodeLoop(pix, mid, hi, first) ELSE st

NoRet == [bit |-> 0, err |-> "none"]

\* encode(fin, fout, fmsg) on the Pix of fin and the content of fmsg
encode(pix, msg) ==
    LET r == newBitReader(msg)
    IN  IF TooLarge(r, Len(pix))
        THEN [status |-> "tooLarge", pix |-> <<>>, r |-> r,
              ret |-> NoRet, calls |-> 0]
        ELSE LET e == EncodeLoop(pix, 0, Len(pix),
                                 [pix |-> <<>>, r |-> r, ret |-> NoRet,
                                  calls |-> 0])
             IN  [status |-> "ok", pix |-> e.pix, r |-> e.r,
                  ret |-> e.ret, calls |-> e.calls]

-----------------------------------------------------------------------------
(* decode *)

\* decode's test for the 4th byte of a pixel, not read
DecodeSkips(i) == (i + 1) % 4 = 0

\* the bits packed least-significant first: res |= bit << (j%8)
DecodeStep_LsbFirst(pix, i, st) ==
    IF DecodeSkips(i) THEN st
    ELSE LET bit  == pix[i + 1] % 2
             res1 == Or8(st.res, (bit * Pow2(st.j % 8)) % 256)
             j1   == st.j + 1
         IN  IF j1 % 8 = 0
             THEN [buf |-> Append(st.buf, res1), res |-> 0, j |-> j1]
             ELSE [buf |-> st.buf, res |-> res1, j |-> j1]

\* one iteration of the loop over img.Pix, at index i: st holds the
\* buffer so far, the byte res being assembled and the bit count j.  j is
\* a uint32 and only j%8 is used, which a wrap at 2^32 leaves as it is.
DecodeStep(pix, i, st) ==
    IF DecodeSkips(i) THEN st
    ELSE LET bit  == pix[i + 1] % 2
             res1 == Or8(st.res, (bit * Pow2(7 - (st.j % 8))) % 256)
             j1   == st.j + 1
         IN  IF j1 % 8 = 0
             THEN [buf |-> Append(st.buf, res1), res |-> 0, j |-> j1]
             ELSE [buf |-> st.buf, res |-> res1, j |-> j1]

\* the iterations lo .. hi-1 of the loop, in index order (halved as in
\* EncodeLoop)
RECURSIVE DecodeLoop(_, _, _, _)
DecodeLoop(pix, lo, hi, st) ==
    IF lo >= hi THEN st
    ELSE IF hi = lo + 1 THEN DecodeStep(pix, lo, st)
    ELSE LET mid   == (lo + hi) \div 2
             first == DecodeLoop(pix, lo, mid, st)
         IN  IF first.j >= 0 THEN DecodeLoop(pix, mid, hi, first) ELSE st

\* len(msg) < int(size), int being 64 bits wide
LenLess(n, size) == size[1] > 0 \/ n < size[2]

\* decode without the comparison of the checksum
Verify_NoChecksum(buf) ==
    LET rs   == BinaryRead(buf)
        size == rs.val
        rh   == BinaryRead(rs.rest)
        msg  == rh.rest
    IN  IF LenLess(Len(msg), size)
        THEN [status |-> "noHidden", msg |-> <<>>]
        ELSE [status |-> "ok", msg |-> SubSeq(msg, 1, size[2])]

\* decode writing all the bytes after the header, not the first size ones
Verify_WritesAll(buf) ==
    LET rs   == BinaryRead(buf)
        size == rs.val
        rh   == BinaryRead(rs.rest)
        hash == rh.val
        msg  == rh.rest
    IN  IF LenLess(Len(msg), size)
        THEN [status |-> "noHidden", msg |-> <<>>]
        ELSE IF Adler32(SubSeq(msg, 1, size[2])) # hash
             THEN [status |-> "noHidden", msg |-> <<>>]
             ELSE [status |-> "ok", msg |-> msg]

\* the header reads and the two checks of decode on the collected buffer
Verify(buf) ==
    LET rs   == BinaryRead(buf)
        size == rs.val
        rh   == BinaryRead(rs.rest)
        hash == rh.val
        msg  == rh.rest
    IN  IF LenLess(Len(msg), size)
        THEN [status |-> "noHidden", msg |-> <<>>]
        ELSE LET m == SubSeq(msg, 1, size[2])
             IN  IF Adler32(m) # hash
                 THEN [status |-> "noHidden", msg |-> <<>>]
                 ELSE [status |-> "ok", msg |-> m]

\* decode(fin, fout) on the Pix of fin
decode(pix) ==
    Verify(DecodeLoop(pix, 0, Len(pix), [buf |-> <<>>, res |-> 0, j |-> 0]).buf)

-----------------------------------------------------------------------------
(* The runs of the program *)

\* a third party edits one bit of one Pix byte of the image file
FlipBit(b, bit) ==
    IF (b \div Pow2(bit)) % 2 = 1 THEN b - Pow2(bit) ELSE b + Pow2(bit)

Init ==
    /\ srcPix \in Carriers
    /\ fmsg = <<>>
    /\ encStatus = "none"
    /\ destPix = <<>>
    /\ img = srcPix
    /\ flip = <<>>
    /\ decStatus = "none"
    /\ out = <<>>
    /\ br = [ptr |-> 0, data |-> <<>>]
    /\ brRet = NoRet
    /\ brCalls = 0

\* one run of "hidden -encode carrier -msg fmsg"
Encode ==
    /\ encStatus = "none" /\ flip = <<>> /\ decStatus = "none"
    /\ \E msg \in Payloads :
         LET e == encode(srcPix, msg)
         IN
           /\ fmsg' = msg
           /\ encStatus' = e.status
           /\ destPix' = e.pix
           /\ img' = IF e.status = "ok" THEN e.pix ELSE img
           /\ br' = e.r
           /\ brRet' = e.ret
           /\ brCalls' = e.calls
    /\ UNCHANGED <<srcPix, flip, decStatus, out>>

Flip ==
    /\ decStatus = "none" /\ flip = <<>>
    /\ \E i \in 0..(Len(img) - 1), bit \in FlipBits :
          /\ img' = [img EXCEPT ![i + 1] = FlipBit(@, bit)]
          /\ flip' = <<i, bit>>
    /\ UNCHANGED <<srcPix, fmsg, encStatus, destPix, decStatus, out,
                   br, brRet, brCalls>>

\* one run of "hidden -decode img -msg out"
Decode ==
    /\ decStatus = "none"
    /\ LET d == decode(img)
       IN  /\ decStatus' = d.status
           /\ out' = d.msg
    /\ UNCHANGED <<srcPix, fmsg, encStatus, destPix, img, flip,
                   br, brRet, brCalls>>

Next == Encode \/ Flip \/ Decode

Spec == Init /\ [][Next]_vars

-----------------------------------------------------------------------------
(* A bitReader driven call by call *)

InitBits ==
    /\ fmsg \in Payloads
    /\ br = newBitReader(fmsg)
    /\ brRet = NoRet
    /\ brCalls = 0
    /\ srcPix = <<>> /\ destPix = <<>> /\ img = <<>> /\ flip = <<>>
    /\ out = <<>> /\ encStatus = "none" /\ decStatus = "none"

BrNext ==
    /\ brCalls < 8 * Len(br.data) + MaxExtraCalls
    /\ LET n == next(br)
       IN  /\ br' = n.r
           /\ brRet' = [bit |-> n.bit, err |-> n.err]
    /\ brCalls' = brCalls + 1
    /\ UNCHANGED <<srcPix, fmsg, encStatus, destPix, img, flip, decStatus, out>>

NextBits == BrNext

SpecBits == InitBits /\ [][NextBits]_vars

-----------------------------------------------------------------------------
(* Vocabulary of the properties, stated from the frame layout and the     *)
(* eligibility rule and not through the operators above                   *)

\* E: the number of eligible bytes of a Pix buffer
ElCount(pix) == Len(pix) - Len(pix) \div 4

IsAlpha(i) == (i + 1) % 4 = 0

\* the number of eligible bytes before index i
EligIndex(i) == i - (i + 1) \div 4

\* the index of the k-th eligible byte, k from 0
PixIndex(k) == k + k \div 3

FrameBits(msg) == 8 * (8 + Len(msg))

\* the frame: length and checksum as 4 big-endian bytes each, then msg
SerializedFrame(msg) ==
    LET n  == Len(msg)
        ck == Adler32(msg)
    IN  [t \in 1..(8 + n) |->
            IF t <= 4 THEN (n \div (256 ^ (4 - t))) % 256
            ELSE IF t = 5 THEN ck[1] \div 256
            ELSE IF t = 6 THEN ck[1] % 256
            ELSE IF t = 7 THEN ck[2] \div 256
            ELSE IF t = 8 THEN ck[2] % 256
            ELSE msg[t - 8]]

\* bit k of a byte sequence, most significant bit of each byte first
BitOf(data, k) == (data[k \div 8 + 1] \div (2 ^ (7 - (k % 8)))) % 2

\* the frame of the encoded message fits the carrier
Fits == FrameBits(fmsg) <= ElCount(srcPix)

\* the image decode was given, before the third party's edit
BaseImg == IF encStatus = "ok" THEN destPix ELSE srcPix

Decoded == decStatus # "none"

\* the edited bit is the LSB of an eligible byte carrying frame bit lo..hi-1
FlipInBits(lo, hi) ==
    /\ flip # <<>>
    /\ flip[2] = 0
    /\ ~IsAlpha(flip[1])
    /\ EligIndex(flip[1]) >= lo
    /\ EligIndex(flip[1]) < hi

-----------------------------------------------------------------------------
\* C1: when the frame fits (8*(8+len(P)) <= E), decode of encode's output
\* returns exactly P, the empty payload included.
C1_RoundTrip ==
    (encStatus = "ok" /\ Fits /\ flip = <<>> /\ Decoded)
        => (decStatus = "ok" /\ out = fmsg)

C1_Witness ==
    /\ encStatus = "ok" /\ Fits /\ flip = <<>>
    /\ decStatus = "ok" /\ out = fmsg /\ Len(fmsg) = 2
    /\ destPix # srcPix

\* C2: encode fails with the capacity error, producing no output, exactly
\* when 8*(8+size) > E.
C2_CapacityPreCheck ==
    encStatus # "none" =>
        /\ (encStatus = "tooLarge") <=> (FrameBits(fmsg) > ElCount(srcPix))
        /\ encStatus = "tooLarge" => (destPix = <<>> /\ BaseImg = srcPix)

\* C3: the output of encode has the length of the input; its k-th eligible
\* byte is the input byte with the LSB replaced by frame bit k (MSB first)
\* while k < 8*(8+size), and the input byte unchanged after that.
C3_MutationRule ==
    (encStatus = "ok" /\ flip = <<>> /\ ~Decoded) =>
        /\ Len(destPix) = Len(srcPix)
        /\ \A i \in 0..(Len(srcPix) - 1) :
              ~IsAlpha(i) =>
                 destPix[i + 1] =
                    IF EligIndex(i) < FrameBits(fmsg)
                    THEN 2 * (srcPix[i + 1] \div 2)
                           + BitOf(SerializedFrame(fmsg), EligIndex(i))
                    ELSE srcPix[i + 1]

C3_Witness ==
    /\ encStatus = "ok" /\ flip = <<>> /\ ~Decoded
    /\ FrameBits(fmsg) < ElCount(srcPix)
    /\ Len(fmsg) > 0
    /\ \E i \in 0..(Len(srcPix) - 1) : destPix[i + 1] = srcPix[i + 1] + 1
    /\ \E i \in 0..(Len(srcPix) - 1) : destPix[i + 1] = srcPix[i + 1] - 1

\* C4: the bytes at indices 3, 7, 11, ... are the same in encode's output
\* as in its input, and editing one of them does not change what decode
\* returns.
C4_EligibilityMapping ==
    /\ encStatus = "ok" =>
          \A i \in 0..(Len(srcPix) - 1) :
              IsAlpha(i) => destPix[i + 1] = srcPix[i + 1]
    /\ (Decoded /\ flip # <<>> /\ IsAlpha(flip[1])) =>
          [status |-> decStatus, msg |-> out] = decode(BaseImg)

C4_Witness ==
    /\ encStatus = "ok" /\ Decoded
    /\ flip # <<>> /\ IsAlpha(flip[1]) /\ flip[2] = 0
    /\ decStatus = "ok" /\ out = fmsg /\ Len(fmsg) > 0

\* C5: after an embed that fits, flipping the LSB of one eligible byte that
\* carries a payload bit (frame bits 64 .. 64+8*size-1) makes decode fail
\* with no hidden message.
C5_IntegrityDetection ==
    (encStatus = "ok" /\ Fits /\ Decoded /\ FlipInBits(64, FrameBits(fmsg)))
        => (decStatus = "noHidden" /\ out = <<>>)

C5_Witness ==
    /\ encStatus = "ok" /\ Fits /\ FlipInBits(64, FrameBits(fmsg))
    /\ decStatus = "noHidden"

\* the LSB of the k-th eligible byte, and byte t (from 0) of the buffer
\* those LSBs spell, most significant bit first
LsbBit(pix, k) == pix[PixIndex(k) + 1] % 2

LsbByte(pix, t) ==
    128 * LsbBit(pix, 8 * t)     + 64 * LsbBit(pix, 8 * t + 1)
  + 32 * LsbBit(pix, 8 * t + 2)  + 16 * LsbBit(pix, 8 * t + 3)
  + 8 * LsbBit(pix, 8 * t + 4)   + 4 * LsbBit(pix, 8 * t + 5)
  + 2 * LsbBit(pix, 8 * t + 6)   + LsbBit(pix, 8 * t + 7)

\* the payload the size field of the LSB buffer declares (size < 65536)
FramePayload(pix) ==
    [t \in 1..(256 * LsbByte(pix, 2) + LsbByte(pix, 3)) |-> LsbByte(pix, 7 + t)]

\* the LSBs of the eligible bytes spell a well-formed frame: a whole
\* header, a size that the bytes after the header cover, and the Adler-32
\* of that many bytes in the checksum field
HoldsFrame(pix) ==
    LET nb == ElCount(pix) \div 8
    IN  /\ nb >= 8
        /\ LsbByte(pix, 0) = 0 /\ LsbByte(pix, 1) = 0
        /\ 256 * LsbByte(pix, 2) + LsbByte(pix, 3) <= nb - 8
        /\ Adler32(FramePayload(pix))
             = <<256 * LsbByte(pix, 4) + LsbByte(pix, 5),
                 256 * LsbByte(pix, 6) + LsbByte(pix, 7)>>

\* C6 as claimed: decode of a carrier on which encode never ran fails with
\* no hidden message.
C6_UntouchedFails ==
    (encStatus # "ok" /\ Decoded) => (decStatus = "noHidden" /\ out = <<>>)

\* C6 amended: decode of a carrier on which encode never ran fails with no
\* hidden message unless the LSBs of its eligible bytes happen to spell a
\* well-formed frame, whose payload it then returns.
C6_UntouchedFailsUnlessFrame ==
    (encStatus # "ok" /\ Decoded) =>
        IF HoldsFrame(img)
        THEN decStatus = "ok" /\ out = FramePayload(img)
        ELSE decStatus = "noHidden" /\ out = <<>>

C6_Witness ==
    /\ encStatus = "none" /\ flip = <<>>
    /\ decStatus = "noHidden"
    /\ ElCount(img) >= 64

\* C7 as claimed: after an embed that fits, flipping a carrier bit that is
\* not the LSB of an eligible byte carrying one of the 8*size payload bits
\* leaves the result of decode at P.
C7_OutsidePayload ==
    (encStatus = "ok" /\ Fits /\ Decoded /\ flip # <<>>
        /\ ~FlipInBits(64, FrameBits(fmsg)))
        => (decStatus = "ok" /\ out = fmsg)

\* C7 amended: after an embed that fits, flipping a carrier bit that is not
\* the LSB of an eligible byte carrying one of the 8*(8+size) bits of the
\* frame (header included) leaves the result of decode at P.
C7_OutsideFrame ==
    (encStatus = "ok" /\ Fits /\ Decoded /\ flip # <<>>
        /\ ~FlipInBits(0, FrameBits(fmsg)))
        => (decStatus = "ok" /\ out = fmsg)

\* the edited bit is the LSB of an eligible byte after the frame, inside the
\* bytes decode collects
C7_Witness ==
    /\ encStatus = "ok" /\ Fits /\ decStatus = "ok" /\ out = fmsg
    /\ FlipInBits(FrameBits(fmsg), 8 * (ElCount(img) \div 8))
    /\ Len(fmsg) > 0

\* C8: when fewer than 8 bytes can be collected (E < 64), decode fails
\* whatever the pixel values and writes no payload, not even the empty one.
C8_TruncatedHeader ==
    (Decoded /\ ElCount(img) < 64) => (decStatus = "noHidden" /\ out = <<>>)

\* a size field read as 0 with no checksum field to read
C8_Witness ==
    /\ decStatus = "noHidden"
    /\ ElCount(img) >= 32 /\ ElCount(img) < 64
    /\ \A k \in 0..31 : LsbBit(img, k) = 0

\* C9: when encode completes without the capacity error, decode of its
\* output returns exactly P or reports no hidden message, also when only a
\* part of the frame was embedded (8*(8+size) > E).
C9_NoWrongPayload ==
    (encStatus = "ok" /\ flip = <<>> /\ Decoded) =>
        \/ decStatus = "ok" /\ out = fmsg
        \/ decStatus = "noHidden" /\ out = <<>>

C9_Witness ==
    /\ encStatus = "ok" /\ flip = <<>> /\ ~Fits
    /\ ElCount(srcPix) >= 64
    /\ decStatus = "noHidden" /\ out = <<>>

\* C10: the k-th call of next() with k < 8*len(data) returns bit
\* (7 - k mod 8) of data[k div 8] and advances ptr by one; every later call
\* returns io.EOF and leaves ptr; ptr never decreases nor exceeds
\* 8*len(data).
C10_BitCursor ==
    [][ /\ br'.data = br.data
        /\ br'.ptr >= br.ptr
        /\ br'.ptr <= 8 * Len(br.data)
        /\ brCalls' = brCalls + 1 =>
              IF brCalls < 8 * Len(br.data)
              THEN /\ brRet' = [bit |-> BitOf(br.data, brCalls), err |-> "nil"]
                   /\ br'.ptr = br.ptr + 1
              ELSE /\ brRet'.err = "EOF"
                   /\ br'.ptr = br.ptr ]_vars

C10_Witness ==
    /\ brRet.err = "EOF"
    /\ br.ptr = 8 * Len(br.data)
    /\ brCalls = br.ptr + 2
    /\ Len(fmsg) > 0

=============================================================================
